---- MODULE Spec2Model ----
(***************************************************************************)
(* Model of the SNMP bulk walk of the Printer MIB subtree (snmp/snmp.c).   *)
(* One behaviour is one call of bulkwalk(): the session is opened, GETBULK *)
(* requests are sent one at a time, every reply of the device is handled   *)
(* by the loop body, and the response is returned.  The device is the      *)
(* environment: it answers each request with any status and any bindings.  *)
(* A second part models the DNS-SD printer discovery of the CUPS driver     *)
(* backend (gcp-cups-driver/backend-local/dnssd.c): one behaviour is one    *)
(* call of discoverPrinters().                                              *)
(***************************************************************************)
EXTENDS Integers, Sequences, FiniteSets, TLC

\* ---------------------------------------------------------------- constants
PRINTER_OID == <<1, 3, 6, 1, 2, 1, 43>>
PRINTER_OID_LEN == 7
NON_REPEATERS == 0
MAX_REPETITIONS == 64

SNMP_ERR_NOERROR == 0
SNMP_ERR_TOOBIG == 1
\* Protocol statuses other than NOERROR and TOOBIG (noSuchName, genErr).
OtherErrstats == {2, 5}

\* ------------------------------------------------------------------- bounds
\* Largest number of variable bindings the device puts in one reply.
MaxBatch == 2
\* Largest number of OID-Value pairs collected in one walk.
MaxOv == 2

\* ------------------------------------------------------------ device inputs
\* OIDs a device may return: two objects below the printer subtree, the
\* subtree root itself, an OID of the same length outside the subtree, an
\* OID that differs from the root in the middle, and an OID shorter than
\* the root.
OidUniverse ==
    { PRINTER_OID \o <<1>>,
      PRINTER_OID \o <<2>>,
      PRINTER_OID,
      <<1, 3, 6, 1, 2, 1, 44>>,
      <<1, 3, 6, 1, 4, 1, 43, 1>>,
      <<1, 3, 6, 1, 2, 1>> }

\* Raw (integer) values carried by the bindings.
RawValues == {0, 1}

\* struct variable_list, one element: its name and its raw value.  Every OID
\* comes with the value 0, the first object of the subtree with 1 as well.
Variables ==
    { b \in [name : OidUniverse, val : RawValues] :
        b.val = 0 \/ b.name = PRINTER_OID \o <<1>> }

\* The variable lists a reply may carry, the empty one included.
Batches == UNION { [1..n -> Variables] : n \in 0..MaxBatch }

NoRequest == [sent |-> FALSE]
NoPdu == [received |-> FALSE]

VARIABLES
    pc,               \* position in bulkwalk: Start, Requesting, Waiting, Done
    session,          \* unopened, open, closed
    closes,           \* calls of snmp_sess_close
    name,             \* oid name[MAX_OID_LEN]: the cursor buffer
    name_length,      \* size_t name_length
    max_repetitions,  \* long max_repetitions
    ov,               \* response->ov_root: the list of struct oid_value
    errors,           \* response->errors
    lastReq,          \* the GETBULK pdu sent last
    subtree,          \* the reply handled last
    rcvd,             \* all bindings of the NOERROR replies, in order
    seen,             \* kinds of reply received so far
    toobigs,          \* TOOBIG replies received
    reductions,       \* executions of max_repetitions /= 2
    outstanding,      \* requests sent and not yet answered
    walk,             \* the walks of the two-walk specification
    device,           \* what each peer has answered to each request so far
    dpc,              \* position in discoverPrinters
    services,         \* struct service_list_s *services
    calls,            \* the browse callbacks delivered so far, in order
    returned          \* the list returned by discoverPrinters

\* The state of the two-walk specification.
pair == <<walk, device>>

\* The state of the one-walk specification.
single == <<pc, session, closes, name, name_length, max_repetitions, ov,
            errors, lastReq, subtree, rcvd, seen, toobigs, reductions,
            outstanding>>

\* The state of the discovery specification.
dnssd == <<dpc, services, calls, returned>>

vars == <<pc, session, closes, name, name_length, max_repetitions, ov, errors,
          lastReq, subtree, rcvd, seen, toobigs, reductions, outstanding,
          walk, device, dpc, services, calls, returned>>

\* ------------------------------------------------------------ pure helpers
\* netsnmp_oid_equals: 0 when the two OIDs, cut to the given lengths, are
\* equal, 1 otherwise.
netsnmp_oid_equals(a, alen, b, blen) ==
    IF alen # blen THEN 1
    ELSE IF SubSeq(a, 1, alen) = SubSeq(b, 1, blen) THEN 0 ELSE 1

\* A mistaken test: the length is not checked and only the components that
\* exist are compared.
not_printer_oid_nolen(var) ==
    LET n == IF Len(var.name) < PRINTER_OID_LEN THEN Len(var.name)
             ELSE PRINTER_OID_LEN
    IN  0 # netsnmp_oid_equals(PRINTER_OID, n, var.name, n)

\* A test that compares only names of full length and lets a shorter name
\* pass as part of the subtree.
not_printer_oid_short_accepted(var) ==
    /\ Len(var.name) >= PRINTER_OID_LEN
    /\ 0 # netsnmp_oid_equals(PRINTER_OID, PRINTER_OID_LEN,
                              var.name, PRINTER_OID_LEN)

\* The test of add_responses: the binding lies outside the printer subtree.
not_printer_oid(var) ==
    \/ Len(var.name) < PRINTER_OID_LEN
    \/ 0 # netsnmp_oid_equals(PRINTER_OID, PRINTER_OID_LEN,
                              var.name, PRINTER_OID_LEN)

\* sprint_realloc_value with quick print: the value rendered as text.
sprint_value(var) == ToString(var.val)

\* A copy of the name that takes the length of the root for every binding.
oid_value_truncated(var) ==
    [name |-> SubSeq(var.name, 1, PRINTER_OID_LEN),
     name_length |-> PRINTER_OID_LEN, value |-> sprint_value(var)]

\* The struct oid_value built for an accepted binding.
oid_value(var) ==
    [name |-> var.name, name_length |-> Len(var.name), value |-> sprint_value(var)]

\* A scan that steps over a binding outside the subtree and goes on.
RECURSIVE add_responses_skips(_, _, _, _)
add_responses_skips(vs, ovs, nm, nlen) ==
    IF vs = <<>>
    THEN [ov |-> ovs, name |-> nm, name_length |-> nlen]
    ELSE LET var == Head(vs) IN
         IF not_printer_oid(var)
         THEN add_responses_skips(Tail(vs), ovs, nm, 0)
         ELSE add_responses_skips(Tail(vs), Append(ovs, oid_value(var)),
                                  var.name, IF nlen = 0 THEN 0 ELSE Len(var.name))

\* add_responses: walks the bindings in order; the first binding outside the
\* subtree zeroes name_length and ends the scan, every other binding is
\* appended to the list and becomes the cursor.
RECURSIVE add_responses(_, _, _, _)
add_responses(vs, ovs, nm, nlen) ==
    IF vs = <<>>
    THEN [ov |-> ovs, name |-> nm, name_length |-> nlen]
    ELSE LET var == Head(vs) IN
         IF not_printer_oid(var)
         THEN [ov |-> ovs, name |-> nm, name_length |-> 0]
         ELSE add_responses(Tail(vs), Append(ovs, oid_value(var)),
                            var.name, Len(var.name))

\* add_error: the message is appended to response->errors.
add_error(errs, err) == Append(errs, err)

\* The message asprintf builds, or the bare library text when it fails.
error_message(kind, errstat, failure) ==
    [kind |-> kind, errstat |-> errstat, formatted |-> ~failure]

\* ---------------------------------------------------------------------- init
Init ==
    /\ pc = "Start"
    /\ session = "unopened"
    /\ closes = 0
    /\ name = <<>>
    /\ name_length = 0
    /\ max_repetitions = 0
    /\ ov = <<>>
    /\ errors = <<>>
    /\ lastReq = NoRequest
    /\ subtree = NoPdu
    /\ rcvd = <<>>
    /\ seen = {}
    /\ toobigs = 0
    /\ reductions = 0
    /\ outstanding = 0
    /\ walk = <<>>
    /\ device = <<>>
    /\ dpc = "Start"
    /\ services = <<>>
    /\ calls = <<>>
    /\ returned = <<>>

\* ------------------------------------------------------------------ actions
\* An open failure that records the error and enters the loop all the same.
OpenFailsFallsThrough ==
    /\ pc = "Start"
    /\ \E failure \in BOOLEAN :
          errors' = add_error(errors, error_message("open", -1, failure))
    /\ name' = PRINTER_OID
    /\ name_length' = PRINTER_OID_LEN
    /\ max_repetitions' = MAX_REPETITIONS
    /\ pc' = "Requesting"
    /\ UNCHANGED <<session, closes, ov, lastReq, subtree, rcvd, seen,
                   toobigs, reductions>>
    /\ UNCHANGED outstanding
    /\ UNCHANGED <<pair, dnssd>>

\* snmp_sess_open fails: the error is recorded and bulkwalk returns.
OpenFails ==
    /\ pc = "Start"
    /\ \E failure \in BOOLEAN :
          errors' = add_error(errors, error_message("open", -1, failure))
    /\ pc' = "Done"
    /\ UNCHANGED <<session, closes, name, name_length, max_repetitions, ov,
                   lastReq, subtree, rcvd, seen, toobigs, reductions>>
    /\ UNCHANGED outstanding
    /\ UNCHANGED <<pair, dnssd>>

\* snmp_sess_open succeeds: cursor and batch size are initialised.
OpenSucceeds ==
    /\ pc = "Start"
    /\ session' = "open"
    /\ name' = PRINTER_OID
    /\ name_length' = PRINTER_OID_LEN
    /\ max_repetitions' = MAX_REPETITIONS
    /\ pc' = "Requesting"
    /\ UNCHANGED <<closes, ov, errors, lastReq, subtree, rcvd, seen,
                   toobigs, reductions>>
    /\ UNCHANGED outstanding
    /\ UNCHANGED <<pair, dnssd>>

\* A request that is sent without waiting for its reply.
RequestWithoutBlocking ==
    /\ pc = "Requesting"
    /\ lastReq' = [sent |-> TRUE,
                   non_repeaters |-> NON_REPEATERS,
                   max_repetitions |-> max_repetitions,
                   name |-> SubSeq(name, 1, name_length)]
    /\ pc' = IF outstanding = 0 THEN "Requesting" ELSE "Waiting"
    /\ UNCHANGED <<session, closes, name, name_length, max_repetitions, ov,
                   errors, subtree, rcvd, seen, toobigs, reductions>>
    /\ outstanding' = outstanding + 1
    /\ UNCHANGED <<pair, dnssd>>

\* A request that always starts from the root of the subtree.
RequestFromRoot ==
    /\ pc = "Requesting"
    /\ lastReq' = [sent |-> TRUE,
                   non_repeaters |-> NON_REPEATERS,
                   max_repetitions |-> max_repetitions,
                   name |-> PRINTER_OID]
    /\ pc' = "Waiting"
    /\ UNCHANGED <<session, closes, name, name_length, max_repetitions, ov,
                   errors, subtree, rcvd, seen, toobigs, reductions>>
    /\ outstanding' = outstanding + 1
    /\ UNCHANGED <<pair, dnssd>>

\* request(): a GETBULK pdu is built and sent, the walker blocks.
Request ==
    /\ pc = "Requesting"
    /\ lastReq' = [sent |-> TRUE,
                   non_repeaters |-> NON_REPEATERS,
                   max_repetitions |-> max_repetitions,
                   name |-> SubSeq(name, 1, name_length)]
    /\ pc' = "Waiting"
    /\ UNCHANGED <<session, closes, name, name_length, max_repetitions, ov,
                   errors, subtree, rcvd, seen, toobigs, reductions>>
    /\ outstanding' = outstanding + 1
    /\ UNCHANGED <<pair, dnssd>>

\* A break of the loop that returns without closing the session.
ReturnWithoutClose ==
    /\ pc' = "Done"
    /\ UNCHANGED <<session, closes>>

\* A close of the session that is not followed by the return.
CloseAndContinue ==
    /\ session' = "closed"
    /\ closes' = closes + 1
    /\ pc' = "Requesting"

\* The break of the loop: snmp_sess_close, then return.
CloseAndReturn ==
    /\ session' = "closed"
    /\ closes' = closes + 1
    /\ pc' = "Done"

\* A failed request that leaves the loop without recording the error.
HandleRequestErrorSilent ==
    /\ pc = "Waiting"
    /\ subtree' = [received |-> FALSE]
    /\ seen' = seen \cup {"TRANSPORT"}
    /\ CloseAndReturn
    /\ UNCHANGED <<name, name_length, max_repetitions, ov, errors, lastReq,
                   rcvd, toobigs, reductions>>
    /\ outstanding' = outstanding - 1
    /\ UNCHANGED <<pair, dnssd>>

\* A failed request that is recorded and then tried again.
HandleRequestErrorRetries ==
    /\ pc = "Waiting"
    /\ subtree' = [received |-> FALSE]
    /\ seen' = seen \cup {"TRANSPORT"}
    /\ \E failure \in BOOLEAN :
          errors' = add_error(errors, error_message("request", -1, failure))
    /\ pc' = "Requesting"
    /\ UNCHANGED <<session, closes>>
    /\ UNCHANGED <<name, name_length, max_repetitions, ov, lastReq,
                   rcvd, toobigs, reductions>>
    /\ outstanding' = outstanding - 1
    /\ UNCHANGED <<pair, dnssd>>

\* request() returns an error: it is recorded and the loop is left.
HandleRequestError ==
    /\ pc = "Waiting"
    /\ subtree' = [received |-> FALSE]
    /\ seen' = seen \cup {"TRANSPORT"}
    /\ \E failure \in BOOLEAN :
          errors' = add_error(errors, error_message("request", -1, failure))
    /\ CloseAndReturn
    /\ UNCHANGED <<name, name_length, max_repetitions, ov, lastReq,
                   rcvd, toobigs, reductions>>
    /\ outstanding' = outstanding - 1
    /\ UNCHANGED <<pair, dnssd>>

\* A loop body that goes on after a NOERROR reply whatever name_length is.
HandleNoErrorNoBoundary ==
    /\ pc = "Waiting"
    /\ \E vs \in Batches :
          LET r == add_responses(vs, ov, name, name_length) IN
          /\ Len(r.ov) <= MaxOv
          /\ subtree' = [received |-> TRUE, errstat |-> SNMP_ERR_NOERROR,
                         variables |-> vs]
          /\ rcvd' = rcvd \o vs
          /\ ov' = r.ov
          /\ name' = r.name
          /\ name_length' = r.name_length
          /\ pc' = "Requesting"
          /\ UNCHANGED <<session, closes>>
    /\ seen' = seen \cup {"NOERROR"}
    /\ UNCHANGED <<max_repetitions, errors, lastReq, toobigs, reductions>>
    /\ outstanding' = outstanding - 1
    /\ UNCHANGED <<pair, dnssd>>

\* A loop body that starts again from the full batch size after a success.
HandleNoErrorResetsBatch ==
    /\ pc = "Waiting"
    /\ \E vs \in Batches :
          LET r == add_responses(vs, ov, name, name_length) IN
          /\ Len(r.ov) <= MaxOv
          /\ subtree' = [received |-> TRUE, errstat |-> SNMP_ERR_NOERROR,
                         variables |-> vs]
          /\ rcvd' = rcvd \o vs
          /\ ov' = r.ov
          /\ name' = r.name
          /\ name_length' = r.name_length
          /\ IF r.name_length = 0
             THEN CloseAndReturn /\ UNCHANGED max_repetitions
             ELSE /\ pc' = "Requesting"
                  /\ max_repetitions' = MAX_REPETITIONS
                  /\ UNCHANGED <<session, closes>>
    /\ seen' = seen \cup {"NOERROR"}
    /\ UNCHANGED <<errors, lastReq, toobigs, reductions>>
    /\ outstanding' = outstanding - 1
    /\ UNCHANGED <<pair, dnssd>>

\* The reply has status NOERROR: its bindings are added; the loop is left
\* when add_responses zeroed name_length and goes on otherwise.
HandleNoError ==
    /\ pc = "Waiting"
    /\ \E vs \in Batches :
          LET r == add_responses(vs, ov, name, name_length) IN
          /\ Len(r.ov) <= MaxOv
          /\ subtree' = [received |-> TRUE, errstat |-> SNMP_ERR_NOERROR,
                         variables |-> vs]
          /\ rcvd' = rcvd \o vs
          /\ ov' = r.ov
          /\ name' = r.name
          /\ name_length' = r.name_length
          /\ IF r.name_length = 0
             THEN CloseAndReturn
             ELSE pc' = "Requesting" /\ UNCHANGED <<session, closes>>
    /\ seen' = seen \cup {"NOERROR"}
    /\ UNCHANGED <<max_repetitions, errors, lastReq, toobigs, reductions>>
    /\ outstanding' = outstanding - 1
    /\ UNCHANGED <<pair, dnssd>>

\* A loop body whose floor test is off by one.
HandleTooBigFloorZero ==
    /\ pc = "Waiting"
    /\ subtree' = [received |-> TRUE, errstat |-> SNMP_ERR_TOOBIG,
                   variables |-> <<>>]
    /\ seen' = seen \cup {"TOOBIG"}
    /\ toobigs' = toobigs + 1
    /\ IF max_repetitions < 1
       THEN CloseAndReturn /\ UNCHANGED <<max_repetitions, reductions>>
       ELSE /\ max_repetitions' = max_repetitions \div 2
            /\ reductions' = reductions + 1
            /\ pc' = "Requesting"
            /\ UNCHANGED <<session, closes>>
    /\ UNCHANGED <<name, name_length, ov, errors, lastReq, rcvd>>
    /\ outstanding' = outstanding - 1
    /\ UNCHANGED <<pair, dnssd>>

\* A loop body that reports the exhausted retries as an error.
HandleTooBigReportsExhaustion ==
    /\ pc = "Waiting"
    /\ subtree' = [received |-> TRUE, errstat |-> SNMP_ERR_TOOBIG,
                   variables |-> <<>>]
    /\ seen' = seen \cup {"TOOBIG"}
    /\ toobigs' = toobigs + 1
    /\ IF max_repetitions <= 1
       THEN /\ CloseAndReturn
            /\ errors' = add_error(errors,
                             error_message("response", SNMP_ERR_TOOBIG, FALSE))
            /\ UNCHANGED <<max_repetitions, reductions>>
       ELSE /\ max_repetitions' = max_repetitions \div 2
            /\ reductions' = reductions + 1
            /\ pc' = "Requesting"
            /\ UNCHANGED <<session, closes, errors>>
    /\ UNCHANGED <<name, name_length, ov, lastReq, rcvd>>
    /\ outstanding' = outstanding - 1
    /\ UNCHANGED <<pair, dnssd>>

\* A loop body that records every TOOBIG reply as an error before retrying.
HandleTooBigRecordsError ==
    /\ pc = "Waiting"
    /\ subtree' = [received |-> TRUE, errstat |-> SNMP_ERR_TOOBIG,
                   variables |-> <<>>]
    /\ seen' = seen \cup {"TOOBIG"}
    /\ toobigs' = toobigs + 1
    /\ errors' = add_error(errors,
                     error_message("response", SNMP_ERR_TOOBIG, FALSE))
    /\ IF max_repetitions <= 1
       THEN CloseAndReturn /\ UNCHANGED <<max_repetitions, reductions>>
       ELSE /\ max_repetitions' = max_repetitions \div 2
            /\ reductions' = reductions + 1
            /\ pc' = "Requesting"
            /\ UNCHANGED <<session, closes>>
    /\ UNCHANGED <<name, name_length, ov, lastReq, rcvd>>
    /\ outstanding' = outstanding - 1
    /\ UNCHANGED <<pair, dnssd>>

\* A loop body that lowers the batch size by one instead of halving it.
HandleTooBigDecrements ==
    /\ pc = "Waiting"
    /\ subtree' = [received |-> TRUE, errstat |-> SNMP_ERR_TOOBIG,
                   variables |-> <<>>]
    /\ seen' = seen \cup {"TOOBIG"}
    /\ toobigs' = toobigs + 1
    /\ IF max_repetitions <= 1
       THEN CloseAndReturn /\ UNCHANGED <<max_repetitions, reductions>>
       ELSE /\ max_repetitions' = max_repetitions - 1
            /\ reductions' = reductions + 1
            /\ pc' = "Requesting"
            /\ UNCHANGED <<session, closes>>
    /\ UNCHANGED <<name, name_length, ov, errors, lastReq, rcvd>>
    /\ outstanding' = outstanding - 1
    /\ UNCHANGED <<pair, dnssd>>

\* The reply has status TOOBIG: at the floor the loop is left silently,
\* otherwise the batch size is halved and the same cursor is requested again.
HandleTooBig ==
    /\ pc = "Waiting"
    /\ subtree' = [received |-> TRUE, errstat |-> SNMP_ERR_TOOBIG,
                   variables |-> <<>>]
    /\ seen' = seen \cup {"TOOBIG"}
    /\ toobigs' = toobigs + 1
    /\ IF max_repetitions <= 1
       THEN CloseAndReturn /\ UNCHANGED <<max_repetitions, reductions>>
       ELSE /\ max_repetitions' = max_repetitions \div 2
            /\ reductions' = reductions + 1
            /\ pc' = "Requesting"
            /\ UNCHANGED <<session, closes>>
    /\ UNCHANGED <<name, name_length, ov, errors, lastReq, rcvd>>
    /\ outstanding' = outstanding - 1
    /\ UNCHANGED <<pair, dnssd>>

\* A loop body that drops the collected values on a protocol error.
HandleStatusErrorDropsValues ==
    /\ pc = "Waiting"
    /\ \E errstat \in OtherErrstats, failure \in BOOLEAN :
          /\ subtree' = [received |-> TRUE, errstat |-> errstat,
                         variables |-> <<>>]
          /\ errors' = add_error(errors,
                           error_message("response", errstat, failure))
    /\ ov' = <<>>
    /\ seen' = seen \cup {"ERROR"}
    /\ CloseAndReturn
    /\ UNCHANGED <<name, name_length, max_repetitions, lastReq,
                   rcvd, toobigs, reductions>>
    /\ outstanding' = outstanding - 1
    /\ UNCHANGED <<pair, dnssd>>

\* A loop body that records a protocol error and goes on with the walk.
HandleStatusErrorContinues ==
    /\ pc = "Waiting"
    /\ \E errstat \in OtherErrstats, failure \in BOOLEAN :
          /\ subtree' = [received |-> TRUE, errstat |-> errstat,
                         variables |-> <<>>]
          /\ errors' = add_error(errors,
                           error_message("response", errstat, failure))
    /\ seen' = seen \cup {"ERROR"}
    /\ pc' = "Requesting"
    /\ UNCHANGED <<session, closes>>
    /\ UNCHANGED <<name, name_length, max_repetitions, ov, lastReq,
                   rcvd, toobigs, reductions>>
    /\ outstanding' = outstanding - 1
    /\ UNCHANGED <<pair, dnssd>>

\* The reply has any other status: the error is recorded, the loop is left.
HandleStatusError ==
    /\ pc = "Waiting"
    /\ \E errstat \in OtherErrstats, failure \in BOOLEAN :
          /\ subtree' = [received |-> TRUE, errstat |-> errstat,
                         variables |-> <<>>]
          /\ errors' = add_error(errors,
                           error_message("response", errstat, failure))
    /\ seen' = seen \cup {"ERROR"}
    /\ CloseAndReturn
    /\ UNCHANGED <<name, name_length, max_repetitions, ov, lastReq,
                   rcvd, toobigs, reductions>>
    /\ outstanding' = outstanding - 1
    /\ UNCHANGED <<pair, dnssd>>

Next ==
    \/ OpenFails
    \/ OpenSucceeds
    \/ Request
    \/ HandleRequestError
    \/ HandleNoError
    \/ HandleTooBig
    \/ HandleStatusError

Spec == Init /\ [][Next]_vars

\* Every step of the walker and every reply of the device eventually happens.
FairSpec == Spec /\ WF_vars(Next)

\* ------------------------------------------------ two walks, shared devices
\* Two calls of bulkwalk, each against a peer.  A device answers a request
\* it has answered before as it did then, so device[p] records, for the
\* requests peer p has been asked, the answer it gave.  The steps of the two
\* walks interleave freely.
Walks == {1, 2}
Peers == {"a", "b"}

\* Largest number of bindings in one reply of the two-walk specification.
MaxPairBatch == 1
\* Largest number of pairs one walk of the two-walk specification collects.
MaxPairOv == 1
\* Largest number of TOOBIG replies one walk of the two-walk specification
\* receives.
MaxPairTooBig == 1

\* The bindings the devices of the two-walk specification return.
PairVariables ==
    { b \in Variables :
        /\ b.val = 0
        /\ b.name \in { PRINTER_OID \o <<1>>, PRINTER_OID \o <<2>>,
                        <<1, 3, 6, 1, 2, 1, 44>> } }

PairBatches == UNION { [1..n -> PairVariables] : n \in 0..MaxPairBatch }

\* What snmp_sess_synch_response may deliver: a failure, or a pdu with a
\* status and, when the status is NOERROR, bindings.
Replies ==
    {[received |-> FALSE]}
    \cup { [received |-> TRUE, errstat |-> SNMP_ERR_NOERROR, variables |-> vs] :
             vs \in PairBatches }
    \cup { [received |-> TRUE, errstat |-> e, variables |-> <<>>] :
             e \in {SNMP_ERR_TOOBIG} \cup OtherErrstats }

\* The locals of one call of bulkwalk before snmp_sess_open.
NewWalk(peername) ==
    [peername |-> peername, pc |-> "Start", session |-> "unopened",
     name |-> <<>>, name_length |-> 0, max_repetitions |-> 0,
     ov |-> <<>>, errors |-> <<>>, lastReq |-> NoRequest,
     subtree |-> NoPdu, rcvd |-> <<>>, toobigs |-> 0]

\* The answers peer p may give to question q: the one it gave before, or any.
Answers(p, q, all) ==
    IF q \in DOMAIN device[p] THEN {device[p][q]} ELSE all

\* Peer p has answered question q with a.
Answered(p, q, a) ==
    [device EXCEPT ![p] = IF q \in DOMAIN @ THEN @ ELSE @ @@ (q :> a)]

\* The loop body of bulkwalk on the locals w, once request() has returned
\* reply: the four cases of the single walk.
loop_body(w, reply, failure) ==
    IF ~reply.received
    THEN [w EXCEPT !.errors = add_error(@, error_message("request", -1, failure)),
                   !.subtree = reply,
                   !.session = "closed", !.pc = "Done"]
    ELSE IF reply.errstat = SNMP_ERR_NOERROR
    THEN LET r == add_responses(reply.variables, w.ov, w.name, w.name_length) IN
         [w EXCEPT !.ov = r.ov, !.name = r.name, !.name_length = r.name_length,
                   !.subtree = reply,
                   !.rcvd = @ \o reply.variables,
                   !.session = IF r.name_length = 0 THEN "closed" ELSE @,
                   !.pc = IF r.name_length = 0 THEN "Done" ELSE "Requesting"]
    ELSE IF reply.errstat = SNMP_ERR_TOOBIG
    THEN IF w.max_repetitions <= 1
         THEN [w EXCEPT !.subtree = reply, !.toobigs = @ + 1,
                        !.session = "closed", !.pc = "Done"]
         ELSE [w EXCEPT !.subtree = reply, !.toobigs = @ + 1,
                        !.max_repetitions = @ \div 2, !.pc = "Requesting"]
    ELSE [w EXCEPT !.errors = add_error(@, error_message("response",
                                                         reply.errstat, failure)),
                   !.subtree = reply,
                   !.session = "closed", !.pc = "Done"]

PairInit ==
    /\ pc = "Start"
    /\ session = "unopened"
    /\ closes = 0
    /\ name = <<>>
    /\ name_length = 0
    /\ max_repetitions = 0
    /\ ov = <<>>
    /\ errors = <<>>
    /\ lastReq = NoRequest
    /\ subtree = NoPdu
    /\ rcvd = <<>>
    /\ seen = {}
    /\ toobigs = 0
    /\ reductions = 0
    /\ outstanding = 0
    /\ \E peername \in Peers : walk = [i \in Walks |->
            NewWalk(IF i = 1 THEN "a" ELSE peername)]
    /\ device = [p \in Peers |-> <<>>]
    /\ dpc = "Start"
    /\ services = <<>>
    /\ calls = <<>>
    /\ returned = <<>>

\* snmp_sess_open fails in walk i.
PairOpenFails(i) ==
    /\ walk[i].pc = "Start"
    /\ FALSE \in Answers(walk[i].peername, <<"open">>, BOOLEAN)
    /\ device' = Answered(walk[i].peername, <<"open">>, FALSE)
    /\ \E failure \in BOOLEAN :
          walk' = [walk EXCEPT
              ![i].errors = add_error(@, error_message("open", -1, failure)),
              ![i].pc = "Done"]
    /\ UNCHANGED <<single, dnssd>>

\* An open that leaves max_repetitions as it happens to be.
PairOpenSucceedsUninitialised(i) ==
    /\ walk[i].pc = "Start"
    /\ TRUE \in Answers(walk[i].peername, <<"open">>, BOOLEAN)
    /\ device' = Answered(walk[i].peername, <<"open">>, TRUE)
    /\ \E garbage \in {MAX_REPETITIONS, 1} :
          walk' = [walk EXCEPT ![i].session = "open",
                               ![i].name = PRINTER_OID,
                               ![i].name_length = PRINTER_OID_LEN,
                               ![i].max_repetitions = garbage,
                               ![i].pc = "Requesting"]
    /\ UNCHANGED <<single, dnssd>>

\* snmp_sess_open succeeds in walk i.
PairOpenSucceeds(i) ==
    /\ walk[i].pc = "Start"
    /\ TRUE \in Answers(walk[i].peername, <<"open">>, BOOLEAN)
    /\ device' = Answered(walk[i].peername, <<"open">>, TRUE)
    /\ walk' = [walk EXCEPT ![i].session = "open",
                            ![i].name = PRINTER_OID,
                            ![i].name_length = PRINTER_OID_LEN,
                            ![i].max_repetitions = MAX_REPETITIONS,
                            ![i].pc = "Requesting"]
    /\ UNCHANGED <<single, dnssd>>

\* Walk i sends a request and blocks.
PairRequest(i) ==
    /\ walk[i].pc = "Requesting"
    /\ walk' = [walk EXCEPT
          ![i].lastReq = [sent |-> TRUE,
                          non_repeaters |-> NON_REPEATERS,
                          max_repetitions |-> walk[i].max_repetitions,
                          name |-> SubSeq(walk[i].name, 1, walk[i].name_length)],
          ![i].pc = "Waiting"]
    /\ UNCHANGED device
    /\ UNCHANGED <<single, dnssd>>

\* A loop body whose batch size is one static variable of all the walks.
PairHandleStaticBatchSize(i) ==
    /\ walk[i].pc = "Waiting"
    /\ LET q == <<walk[i].lastReq.name, walk[i].lastReq.max_repetitions>> IN
       \E reply \in Answers(walk[i].peername, q, Replies), failure \in BOOLEAN :
          LET w == loop_body(walk[i], reply, failure) IN
          /\ Len(w.ov) <= MaxPairOv
          /\ w.toobigs <= MaxPairTooBig
          /\ walk' = [j \in Walks |->
                IF j = i THEN w
                ELSE [walk[j] EXCEPT !.max_repetitions =
                        IF walk[j].pc = "Start" THEN @ ELSE w.max_repetitions]]
          /\ device' = Answered(walk[i].peername, q, reply)
    /\ UNCHANGED <<single, dnssd>>

\* Walk i receives the reply to its request and runs the loop body on it.
PairHandle(i) ==
    /\ walk[i].pc = "Waiting"
    /\ LET q == <<walk[i].lastReq.name, walk[i].lastReq.max_repetitions>> IN
       \E reply \in Answers(walk[i].peername, q, Replies), failure \in BOOLEAN :
          LET w == loop_body(walk[i], reply, failure) IN
          /\ Len(w.ov) <= MaxPairOv
          /\ w.toobigs <= MaxPairTooBig
          /\ walk' = [walk EXCEPT ![i] = w]
          /\ device' = Answered(walk[i].peername, q, reply)
    /\ UNCHANGED <<single, dnssd>>

PairNext ==
    \/ \E i \in Walks : PairOpenFails(i)
    \/ \E i \in Walks : PairOpenSucceeds(i)
    \/ \E i \in Walks : PairRequest(i)
    \/ \E i \in Walks : PairHandle(i)

PairSpec == PairInit /\ [][PairNext]_vars

\* ------------------------------------------------------- DNS-SD discovery
kDNSServiceErr_NoError == 0
\* Error codes of the DNS-SD calls and callbacks: none, or
\* kDNSServiceErr_Unknown.
DNSServiceErrors == {kDNSServiceErr_NoError, -65537}

\* The null pointer; a pointer to an object is the one-element sequence of
\* that object, and the empty service list is the null pointer.
NULL == <<>>

\* Bounds: browse callbacks delivered in one call of discoverPrinters, and
\* resolve callbacks delivered by one DNSServiceProcessResult.
MaxCallbacks == 3
MaxResolveResults == 1

\* Service instance names a browse callback may report.
InstanceNames == {"printer-a", "printer-b"}

\* What one resolve callback carries: a failure, or a host name with a port
\* in network byte order (80 and 631).  The host name of a failure is not
\* read.
ResolveReplies ==
    { [errorCode |-> -65537, hostname |-> "", port |-> 0],
      [errorCode |-> kDNSServiceErr_NoError, hostname |-> "a.local.",
       port |-> 20480],
      [errorCode |-> kDNSServiceErr_NoError, hostname |-> "b.local.",
       port |-> 30466] }

\* The resolve callbacks one DNSServiceProcessResult delivers: none when it
\* fails, otherwise one or more.
ResolveRuns ==
    UNION { [1..n -> ResolveReplies] : n \in 0..MaxResolveResults }

\* The inputs of one browse callback: its errorCode and name, the result of
\* DNSServiceResolve and the resolve callbacks that follow.  A callback that
\* reports an error carries no name, a resolve that does not start delivers
\* nothing.
BrowseEvents ==
    [errorCode : {-65537}, name : {""}, error : {kDNSServiceErr_NoError},
     results : {<<>>}]
    \cup [errorCode : {kDNSServiceErr_NoError}, name : InstanceNames,
          error : {-65537}, results : {<<>>}]
    \cup [errorCode : {kDNSServiceErr_NoError}, name : InstanceNames,
          error : {kDNSServiceErr_NoError}, results : ResolveRuns]

\* strdup: a pointer to a fresh copy of the string.
strdup(str) == <<str>>

\* ntohs on a little-endian host: the two bytes of the uint16_t swapped.
ntohs(port) == ((port % 256) * 256 + (port \div 256)) % 65536

\* resolveCallback, with context the struct service_s it fills in.
resolveCallback(service, errorCode, hostname, port) ==
    IF errorCode # kDNSServiceErr_NoError THEN service
    ELSE [service EXCEPT !.hostname = strdup(hostname),
                         !.port = ntohs(port)]

\* DNSServiceProcessResult on the resolve reference: resolveCallback is
\* called for each result, in order.
RECURSIVE DNSServiceProcessResult(_, _)
DNSServiceProcessResult(service, results) ==
    IF results = <<>> THEN service
    ELSE LET r == Head(results)
         IN  DNSServiceProcessResult(
                 resolveCallback(service, r.errorCode, r.hostname, r.port),
                 Tail(results))

\* A browse callback that links the service without looking at its host
\* name.
discoverPrintersBrowseCallbackNoHostCheck(list, errorCode, instance, error, results) ==
    IF errorCode # kDNSServiceErr_NoError THEN list
    ELSE LET service == [name |-> NULL, hostname |-> NULL, port |-> 0]
         IN  IF error # kDNSServiceErr_NoError THEN list
             ELSE LET resolved == DNSServiceProcessResult(service, results)
                  IN  Append(list, [resolved EXCEPT !.name = strdup(instance)])

\* discoverPrintersBrowseCallback, with context the list: the list after
\* the callback.  The walk to the last next pointer and the store there
\* are the Append.
discoverPrintersBrowseCallback(list, errorCode, instance, error, results) ==
    IF errorCode # kDNSServiceErr_NoError THEN list
    ELSE LET service == [name |-> NULL, hostname |-> NULL, port |-> 0]
         IN  IF error # kDNSServiceErr_NoError THEN list
             ELSE LET resolved == DNSServiceProcessResult(service, results)
                  IN  IF resolved.hostname = NULL THEN list
                      ELSE Append(list,
                                  [resolved EXCEPT !.name = strdup(instance)])

\* DNSServiceBrowse fails: discoverPrinters returns NULL.
BrowseFails ==
    /\ dpc = "Start"
    /\ services' = NULL
    /\ returned' = NULL
    /\ dpc' = "Returned"
    /\ UNCHANGED calls
    /\ UNCHANGED <<single, pair>>

\* DNSServiceBrowse succeeds: select() is called on the socket.
BrowseStarts ==
    /\ dpc = "Start"
    /\ services' = NULL
    /\ dpc' = "Selecting"
    /\ UNCHANGED <<calls, returned>>
    /\ UNCHANGED <<single, pair>>

\* select() times out or fails: nothing is processed, the list is returned.
SelectNothing ==
    /\ dpc = "Selecting"
    /\ \E result \in {-1, 0} :
          /\ ~(result > 0)
          /\ returned' = services
          /\ dpc' = "Returned"
    /\ UNCHANGED <<services, calls>>
    /\ UNCHANGED <<single, pair>>

\* select() reports the socket readable: DNSServiceProcessResult is called.
SelectReady ==
    /\ dpc = "Selecting"
    /\ \E result \in {1} :
          /\ result > 0
          /\ dpc' = "Processing"
    /\ UNCHANGED <<services, calls, returned>>
    /\ UNCHANGED <<single, pair>>

\* DNSServiceProcessResult delivers one browse callback.
BrowseCallback ==
    /\ dpc = "Processing"
    /\ Len(calls) < MaxCallbacks
    /\ \E e \in BrowseEvents :
          /\ services' = discoverPrintersBrowseCallback(
                             services, e.errorCode, e.name, e.error, e.results)
          /\ calls' = Append(calls, e)
    /\ UNCHANGED <<dpc, returned>>
    /\ UNCHANGED <<single, pair>>

\* DNSServiceProcessResult returns: the reference is deallocated and the
\* list is returned.
ProcessDone ==
    /\ dpc = "Processing"
    /\ returned' = services
    /\ dpc' = "Returned"
    /\ UNCHANGED <<services, calls>>
    /\ UNCHANGED <<single, pair>>

DnssdNext ==
    \/ BrowseFails
    \/ BrowseStarts
    \/ SelectNothing
    \/ SelectReady
    \/ BrowseCallback
    \/ ProcessDone

DnssdSpec == Init /\ [][DnssdNext]_vars

\* ------------------------------------------------- vocabulary of the claims
\* The OID has at least 7 components and its first 7 are those of the root.
InPrinterSubtree(oid) ==
    /\ Len(oid) >= 7
    /\ \A i \in 1..7 : oid[i] = PRINTER_OID[i]

\* Index of the first binding of bs outside the subtree, Len(bs) + 1 if none.
FirstOutside(bs) ==
    IF \E i \in 1..Len(bs) : ~InPrinterSubtree(bs[i].name)
    THEN CHOOSE i \in 1..Len(bs) :
            /\ ~InPrinterSubtree(bs[i].name)
            /\ \A j \in 1..(i - 1) : InPrinterSubtree(bs[j].name)
    ELSE Len(bs) + 1

\* The pairs of the bindings of bs that precede the first one outside.
AcceptedPairs(bs) ==
    [i \in 1..(FirstOutside(bs) - 1) |->
        [name |-> bs[i].name, name_length |-> Len(bs[i].name),
         value |-> ToString(bs[i].val)]]

\* A GETBULK request is being sent in this step.
Sending == pc = "Requesting" /\ pc' = "Waiting"
\* A reply is being handled in this step.
Handling == pc = "Waiting" /\ pc' # "Waiting"
\* Nothing happens once bulkwalk has returned.
ReturnIsFinal == [][pc # "Done"]_vars

\* C1: in every state, every pair of the value list has an OID of at least
\* 7 components whose first 7 components are 1.3.6.1.2.1.43, whatever the
\* device returns.
C1_ValuesInSubtree ==
    \A i \in 1..Len(ov) :
        /\ ov[i].name_length >= 7
        /\ ov[i].name_length = Len(ov[i].name)
        /\ SubSeq(ov[i].name, 1, 7) = <<1, 3, 6, 1, 2, 1, 43>>

C1_Witness ==
    /\ pc = "Done"
    /\ Len(ov) >= 1
    /\ subtree.received
    /\ subtree.errstat = SNMP_ERR_NOERROR
    /\ \E i \in 1..Len(subtree.variables) :
          Len(subtree.variables[i].name) < 7

\* C2: a reply with a status other than NOERROR and TOOBIG appends exactly
\* one error message, leaves the value list as it was before the reply, and
\* ends the walk: no further request is sent.
C2_StatusErrorHalts ==
    /\ [][(Handling /\ subtree'.received
             /\ subtree'.errstat \notin {SNMP_ERR_NOERROR, SNMP_ERR_TOOBIG})
          => /\ Len(errors') = Len(errors) + 1
             /\ SubSeq(errors', 1, Len(errors)) = errors
             /\ errors'[Len(errors')].kind = "response"
             /\ errors'[Len(errors')].errstat = subtree'.errstat
             /\ ov' = ov
             /\ lastReq' = lastReq
             /\ pc' = "Done"]_vars
    /\ ReturnIsFinal

C2_Witness ==
    /\ pc = "Done"
    /\ subtree.received
    /\ subtree.errstat \in OtherErrstats
    /\ Len(ov) >= 1
    /\ Len(errors) = 1

\* C3: every call of bulkwalk eventually returns, whatever the device
\* replies, provided every request is eventually answered.
C3_WalkReturns == <>(pc = "Done")

\* C4: between two consecutive requests of a walk either the cursor has
\* changed or max-repetitions has strictly decreased.
C4_NoRepeatedRequest ==
    [][(Sending /\ lastReq.sent)
       => \/ lastReq'.name # lastReq.name
          \/ lastReq'.max_repetitions < lastReq.max_repetitions]_vars

\* C5: a walk receives at most 7 TOOBIG replies and halves the batch size at
\* most 7 times, and a TOOBIG reply to a request with max-repetitions 1 ends
\* the walk.
C5_BoundedBackoff ==
    /\ toobigs <= 7
    /\ reductions <= 7
    /\ (/\ pc # "Waiting"
        /\ subtree.received
        /\ subtree.errstat = SNMP_ERR_TOOBIG
        /\ lastReq.max_repetitions <= 1) => pc = "Done"

C5_Witness ==
    /\ pc = "Done"
    /\ toobigs = 7
    /\ Len(ov) >= 1
    /\ subtree.received
    /\ subtree.errstat = SNMP_ERR_TOOBIG

\* C6: the first request carries max-repetitions 64, every later request
\* carries at most the value of the request before it, every value is a
\* power of two from 64 down to 1, and non-repeaters is 0 on every request.
C6_BatchSizeOnlyDecreases ==
    [][Sending
       => /\ lastReq'.non_repeaters = 0
          /\ lastReq'.max_repetitions \in {64, 32, 16, 8, 4, 2, 1}
          /\ IF lastReq.sent
             THEN lastReq'.max_repetitions <= lastReq.max_repetitions
             ELSE lastReq'.max_repetitions = 64]_vars

C6_Witness ==
    /\ pc = "Waiting"
    /\ lastReq.max_repetitions = 32
    /\ subtree.received
    /\ subtree.errstat = SNMP_ERR_NOERROR
    /\ Len(ov) >= 1

\* C7: while the replies of a walk are only NOERROR and TOOBIG, the error
\* list is empty and the value list holds the values accepted from the
\* NOERROR batches.
C7_TooBigNeverSurfaces ==
    (session # "unopened" /\ seen \subseteq {"NOERROR", "TOOBIG"})
    => /\ errors = <<>>
       /\ ov = AcceptedPairs(rcvd)

C7_Witness ==
    /\ pc = "Done"
    /\ seen = {"NOERROR", "TOOBIG"}
    /\ toobigs = 1
    /\ max_repetitions = 32
    /\ Len(ov) >= 1
    /\ errors = <<>>

\* C8: a TOOBIG reply to a request with max-repetitions 1 ends the walk,
\* records no error, and leaves the value list as the earlier batches
\* built it.
C8_SilentExhaustion ==
    [][(Handling /\ max_repetitions = 1 /\ subtree'.received
          /\ subtree'.errstat = SNMP_ERR_TOOBIG)
       => /\ pc' = "Done"
          /\ errors' = errors
          /\ errors' = <<>>
          /\ ov' = ov
          /\ ov' = AcceptedPairs(rcvd')]_vars

C8_Witness ==
    /\ pc = "Done"
    /\ max_repetitions = 1
    /\ lastReq.max_repetitions = 1
    /\ subtree.received
    /\ subtree.errstat = SNMP_ERR_TOOBIG
    /\ Len(ov) >= 1
    /\ errors = <<>>

\* C9: a NOERROR batch with a binding outside the root prefix ends the walk
\* with no error recorded, and the response holds every in-prefix binding
\* accepted before the boundary binding.
C9_BoundaryEndsWalkCleanly ==
    (/\ subtree.received
     /\ subtree.errstat = SNMP_ERR_NOERROR
     /\ \E i \in 1..Len(subtree.variables) :
           ~InPrinterSubtree(subtree.variables[i].name))
    => /\ pc = "Done"
       /\ errors = <<>>
       /\ ov = AcceptedPairs(rcvd)

C9_Witness ==
    /\ pc = "Done"
    /\ subtree.received
    /\ subtree.errstat = SNMP_ERR_NOERROR
    /\ Len(subtree.variables) = 2
    /\ InPrinterSubtree(subtree.variables[1].name)
    /\ ~InPrinterSubtree(subtree.variables[2].name)
    /\ Len(ov) >= 2
    /\ toobigs >= 1

\* C10: when the session cannot be opened, bulkwalk returns at once: no
\* request is sent, the value list is empty and the error list holds the
\* session-open error and nothing else.
C10_OpenFailure ==
    (Len(errors) >= 1 /\ errors[1].kind = "open")
    => /\ pc = "Done"
       /\ ~lastReq.sent
       /\ ov = <<>>
       /\ Len(errors) = 1

C10_Witness ==
    /\ pc = "Done"
    /\ session = "unopened"
    /\ Len(errors) = 1
    /\ errors[1].kind = "open"

\* a precedes b in the lexicographic order of OIDs.
OidLess(a, b) ==
    \E k \in 1..(Len(a) + 1) :
        /\ k <= Len(b)
        /\ \A j \in 1..(k - 1) : a[j] = b[j]
        /\ (k = Len(a) + 1 \/ a[k] < b[k])

\* The names of the sequence strictly increase from first to last.
NamesIncrease(xs) ==
    \A i \in 1..Len(xs), j \in 1..Len(xs) :
        i < j => OidLess(xs[i].name, xs[j].name)

\* The walk ended because the session could not be opened.
OpenFailed == errors # <<>> /\ errors[1].kind = "open"

\* The reply handled last has status NOERROR.
LastNoError == subtree.received /\ subtree.errstat = SNMP_ERR_NOERROR

\* The reply handled last has status TOOBIG.
LastTooBig == subtree.received /\ subtree.errstat = SNMP_ERR_TOOBIG

\* C11 (as stated): on every exit path, the immediate session-open failure
\* included, snmp_sess_close has been called exactly once when bulkwalk
\* returns.
C11_CloseOnEveryExit == pc = "Done" => closes = 1

\* C11 (amended): the session is closed exactly once, at the return, on every
\* exit path that follows a successful open; when the open fails there is no
\* session and close is not called.
C11_CloseOncePerOpenedSession ==
    /\ pc # "Done" => closes = 0
    /\ pc = "Done" => closes = (IF OpenFailed THEN 0 ELSE 1)
    /\ closes = 1 <=> session = "closed"
    /\ OpenFailed => session = "unopened"

C11_Witness ==
    /\ pc = "Done"
    /\ closes = 1
    /\ errors # <<>>
    /\ errors[1].kind = "request"
    /\ Len(ov) >= 1

\* C12 (as stated): in every returned response the OIDs of the value list
\* strictly increase in lexicographic order.
C12_StrictlyIncreasing == pc = "Done" => NamesIncrease(ov)

\* C12 (amended): when the bindings the device returned over the walk
\* strictly increase in the order received, the OIDs of the value list
\* strictly increase, with no OID twice.
C12_IncreasingWhenDeviceIs == NamesIncrease(rcvd) => NamesIncrease(ov)

C12_Witness ==
    /\ pc = "Done"
    /\ Len(ov) >= 2
    /\ Len(rcvd) > Len(ov)
    /\ NamesIncrease(rcvd)

\* C13 (as stated): no walk returns a response whose value list and error
\* list are both empty.
C13_ThreeShapes == pc = "Done" => (ov # <<>> \/ errors # <<>>)

\* C13 (amended): a response with both lists empty is returned only when the
\* walk ended, before any binding was accepted, at a NOERROR batch whose
\* first binding is outside the prefix or at a TOOBIG reply received with
\* max-repetitions 1.
C13_EmptyResponseOnlyAtBoundaryOrFloor ==
    (pc = "Done" /\ ov = <<>> /\ errors = <<>>)
    => \/ /\ LastNoError
          /\ subtree.variables # <<>>
          /\ ~InPrinterSubtree(subtree.variables[1].name)
       \/ /\ LastTooBig
          /\ max_repetitions = 1

C13_Witness ==
    /\ pc = "Done"
    /\ ov = <<>>
    /\ errors = <<>>
    /\ LastNoError
    /\ toobigs = 0

\* C14: two walks against the same unchanged device return the same ordered
\* value list and the same number of errors.
C14_SameDeviceSameResponse ==
    \A i \in Walks, j \in Walks :
        (/\ walk[i].peername = walk[j].peername
         /\ walk[i].pc = "Done"
         /\ walk[j].pc = "Done")
        => /\ walk[i].ov = walk[j].ov
           /\ Len(walk[i].errors) = Len(walk[j].errors)

C14_Witness ==
    /\ walk[1].peername = walk[2].peername
    /\ walk[1].pc = "Done"
    /\ walk[2].pc = "Done"
    /\ Len(walk[1].ov) = 1
    /\ Len(walk[1].errors) = 1
    /\ walk[2].toobigs = 1

\* The response walk w returns is the one its own replies determine.
OwnResponse(w) ==
    /\ w.ov = AcceptedPairs(w.rcvd)
    /\ (w.pc # "Start" /\ w.session # "unopened" /\ w.toobigs <= 6)
          => w.max_repetitions * (2 ^ w.toobigs) = 64
    /\ (w.pc \in {"Requesting", "Waiting"})
          => SubSeq(w.name, 1, w.name_length) =
                (IF w.ov = <<>> THEN PRINTER_OID ELSE w.ov[Len(w.ov)].name)
    /\ w.pc = "Done"
          => Len(w.errors) =
                (IF \/ w.session = "unopened"
                    \/ ~w.subtree.received
                    \/ w.subtree.errstat \notin {SNMP_ERR_NOERROR, SNMP_ERR_TOOBIG}
                 THEN 1 ELSE 0)

\* C16: of two walks that run concurrently against different peers, every
\* step changes the session, cursor, max-repetitions and response of one walk
\* only and the answers of that walk's peer only, and each walk returns the
\* response its own replies determine.
C16_WalksDoNotInterfere ==
    /\ [][\A i \in Walks :
            walk'[i] # walk[i]
            => /\ \A j \in Walks \ {i} : walk'[j] = walk[j]
               /\ \A p \in Peers \ {walk[i].peername} : device'[p] = device[p]]_vars
    /\ [](walk[1].peername # walk[2].peername
            => \A i \in Walks : OwnResponse(walk[i]))

C16_Witness ==
    /\ walk[1].peername # walk[2].peername
    /\ walk[1].pc = "Waiting"
    /\ walk[2].pc = "Waiting"
    /\ walk[1].max_repetitions = 32
    /\ walk[2].max_repetitions = 64
    /\ Len(walk[2].ov) = 1
    /\ walk[1].ov = <<>>

\* C15: at most one request is outstanding at any time, and a request is
\* sent only when the reply to the one before it has been handled: the
\* request carries the cursor and the batch size the handler left.
C15_OneOutstandingRequest ==
    /\ [](outstanding \in {0, 1})
    /\ [](outstanding = 1 <=> pc = "Waiting")
    /\ [][Sending => /\ outstanding = 0
                     /\ outstanding' = 1
                     /\ lastReq'.name = SubSeq(name, 1, name_length)
                     /\ lastReq'.max_repetitions = max_repetitions]_vars
    /\ [][Handling => outstanding = 1 /\ outstanding' = 0]_vars

C15_Witness ==
    /\ pc = "Waiting"
    /\ outstanding = 1
    /\ LastNoError
    /\ Len(ov) >= 1

\* C17: when the walk ends at the subtree boundary, the value list is, in
\* order, the bindings received before the first one outside the prefix;
\* that binding and the bindings after it in its batch are not in the list.
C17_LongestLeadingRun ==
    (pc = "Done" /\ LastNoError)
    => /\ Len(ov) < Len(rcvd)
       /\ ~InPrinterSubtree(rcvd[Len(ov) + 1].name)
       /\ \A i \in 1..Len(ov) :
             /\ InPrinterSubtree(rcvd[i].name)
             /\ ov[i].name = rcvd[i].name
             /\ ov[i].value = ToString(rcvd[i].val)

C17_Witness ==
    /\ pc = "Done"
    /\ LastNoError
    /\ Len(subtree.variables) = 2
    /\ ~InPrinterSubtree(subtree.variables[1].name)
    /\ InPrinterSubtree(subtree.variables[2].name)
    /\ Len(ov) >= 1

\* C18: the request that follows a NOERROR batch of one or more bindings,
\* all of them in-prefix, starts at the OID of the last binding of the batch,
\* which is the last pair of the value list, and carries the max-repetitions
\* of the request that produced the batch.
C18_NextRequestFromLastBinding ==
    [][(/\ Sending
        /\ LastNoError
        /\ subtree.variables # <<>>
        /\ \A i \in 1..Len(subtree.variables) :
              InPrinterSubtree(subtree.variables[i].name))
       => /\ lastReq'.name = subtree.variables[Len(subtree.variables)].name
          /\ lastReq'.name = ov[Len(ov)].name
          /\ lastReq'.max_repetitions = lastReq.max_repetitions]_vars

C18_Witness ==
    /\ pc = "Waiting"
    /\ LastNoError
    /\ Len(subtree.variables) = 2
    /\ lastReq.name = subtree.variables[2].name
    /\ lastReq.name # subtree.variables[1].name
    /\ lastReq.max_repetitions = 16

\* C19: a TOOBIG reply received with max-repetitions above 1 leaves the
\* cursor, the value list and the error list unchanged and halves
\* max-repetitions, rounding down; the request that follows carries the same
\* starting OID and the halved max-repetitions.
C19_TooBigHalvesOnly ==
    /\ [][(Handling /\ max_repetitions > 1 /\ subtree'.received
             /\ subtree'.errstat = SNMP_ERR_TOOBIG)
          => /\ name' = name
             /\ name_length' = name_length
             /\ ov' = ov
             /\ errors' = errors
             /\ 2 * max_repetitions' <= max_repetitions
             /\ max_repetitions <= 2 * max_repetitions' + 1
             /\ pc' = "Requesting"]_vars
    /\ [][(Sending /\ LastTooBig)
          => /\ lastReq'.name = lastReq.name
             /\ 2 * lastReq'.max_repetitions <= lastReq.max_repetitions
             /\ lastReq.max_repetitions <= 2 * lastReq'.max_repetitions + 1]_vars

C19_Witness ==
    /\ pc = "Waiting"
    /\ LastTooBig
    /\ lastReq.max_repetitions = 16
    /\ Len(lastReq.name) = 8
    /\ Len(ov) >= 1

\* C20: a request follows a NOERROR reply only if the reply carried at least
\* one binding and all its bindings were in-prefix; no request follows a
\* NOERROR reply without bindings.
C20_NoRequestAfterEmptyBatch ==
    [][(Sending /\ LastNoError)
       => /\ subtree.variables # <<>>
          /\ \A i \in 1..Len(subtree.variables) :
                InPrinterSubtree(subtree.variables[i].name)]_vars

\* C21: a request that fails at the transport level is not retried: exactly
\* one error message is appended, the value list stays as it was, the walk
\* ends and no further request is sent.
C21_TransportFailureHalts ==
    /\ [][(Handling /\ ~subtree'.received)
          => /\ Len(errors') = Len(errors) + 1
             /\ SubSeq(errors', 1, Len(errors)) = errors
             /\ errors'[Len(errors')].kind = "request"
             /\ ov' = ov
             /\ lastReq' = lastReq
             /\ pc' = "Done"]_vars
    /\ ReturnIsFinal

C21_Witness ==
    /\ pc = "Done"
    /\ lastReq.sent
    /\ ~subtree.received
    /\ Len(ov) = 2
    /\ Len(errors) = 1
    /\ toobigs >= 1

\* C22: the error list never holds more than one message, and every step
\* that appends a message is a step to Done.
C22_AtMostOneError ==
    /\ [](Len(errors) <= 1)
    /\ [](errors # <<>> => pc = "Done")
    /\ [][errors' # errors
          => /\ Len(errors') = Len(errors) + 1
             /\ pc' = "Done"]_vars

C22_Witness ==
    /\ pc = "Done"
    /\ Len(errors) = 1
    /\ errors[1].kind = "response"
    /\ toobigs >= 1
    /\ Len(ov) >= 1

\* C23: a request is sent only while the session is open: not before the
\* open, not after the close, not after the return; once bulkwalk has
\* returned the value list and the error list no longer change.
C23_RequestsOnlyWhileOpen ==
    /\ [][Sending => session = "open" /\ session' = "open"]_vars
    /\ [](pc \in {"Requesting", "Waiting"} <=> session = "open")
    /\ [](session = "closed" => pc = "Done")
    /\ [](pc = "Start" => session = "unopened" /\ ~lastReq.sent)
    /\ [][pc = "Done" => /\ pc' = "Done"
                         /\ lastReq' = lastReq
                         /\ ov' = ov
                         /\ errors' = errors]_vars

C23_Witness ==
    /\ pc = "Waiting"
    /\ session = "open"
    /\ lastReq.max_repetitions = 8
    /\ Len(ov) >= 1

\* C24: a binding whose OID has fewer than 7 components is the subtree
\* boundary: it is not appended to the value list, no error is recorded and
\* the walk ends, as for any OID outside the prefix.
C24_ShortOidIsBoundary ==
    [][(/\ Handling
        /\ subtree'.received
        /\ subtree'.errstat = SNMP_ERR_NOERROR
        /\ \E i \in 1..Len(subtree'.variables) :
              /\ Len(subtree'.variables[i].name) < 7
              /\ \A j \in 1..(i - 1) :
                    InPrinterSubtree(subtree'.variables[j].name))
       => /\ pc' = "Done"
          /\ errors' = errors
          /\ LET i == CHOOSE k \in 1..Len(subtree'.variables) :
                        /\ Len(subtree'.variables[k].name) < 7
                        /\ \A j \in 1..(k - 1) :
                              InPrinterSubtree(subtree'.variables[j].name)
             IN  /\ Len(ov') = Len(ov) + i - 1
                 /\ SubSeq(ov', 1, Len(ov)) = ov
                 /\ \A k \in 1..Len(ov') :
                       ov'[k].name # subtree'.variables[i].name]_vars

C24_Witness ==
    /\ pc = "Done"
    /\ LastNoError
    /\ Len(subtree.variables) = 2
    /\ InPrinterSubtree(subtree.variables[1].name)
    /\ Len(subtree.variables[2].name) < 7
    /\ Len(ov) = 2
    /\ errors = <<>>

\* A browse callback that ends with a service: no error reported, the
\* resolve started, and some resolve callback delivered a host name.
Resolved(e) ==
    /\ e.errorCode = 0
    /\ e.error = 0
    /\ \E k \in 1..Len(e.results) : e.results[k].errorCode = 0

\* C25: every entry of the list of discoverPrinters has a name and a host
\* name that are not NULL; the entries are those of the callbacks that
\* ended with a host name, in the order of the callbacks; a callback that
\* reports an error, does not start a resolve or ends without host name
\* leaves the list as it was.
C25_DiscoveredServices ==
    /\ [](\A i \in 1..Len(services) :
             /\ services[i].name # <<>>
             /\ services[i].hostname # <<>>)
    /\ [](LET done == SelectSeq(calls, Resolved)
          IN  /\ Len(services) = Len(done)
              /\ \A i \in 1..Len(done) :
                    /\ services[i].name = <<done[i].name>>
                    /\ \E k \in 1..Len(done[i].results) :
                          /\ done[i].results[k].errorCode = 0
                          /\ services[i].hostname
                               = <<done[i].results[k].hostname>>)
    /\ [](dpc = "Returned" => returned = services)
    /\ [][calls' # calls
          => LET e == calls'[Len(calls')]
             IN  IF Resolved(e)
                 THEN /\ Len(services') = Len(services) + 1
                      /\ SubSeq(services', 1, Len(services)) = services
                 ELSE services' = services]_vars

C25_Witness ==
    /\ dpc = "Returned"
    /\ Len(calls) = 3
    /\ Resolved(calls[1])
    /\ ~Resolved(calls[2])
    /\ Resolved(calls[3])
    /\ Len(returned) = 2
    /\ returned[1].name = <<"printer-b">>
    /\ returned[2].name = <<"printer-a">>
    /\ returned[2].port = 631

====
